---- MODULE Spec2Model ----
(***************************************************************************)
(* The P4Runtime tunnel controller of mycontroller.py as a state machine:  *)
(* the entry point, main (log truncation, the three device sessions, the   *)
(* pipeline pushes, the 21 rule writes, the polling loop), the exception   *)
(* handlers of main, the three devices with their tables and tunnel        *)
(* counters, and the three link log files.                                 *)
(***************************************************************************)
EXTENDS Integers, Sequences, FiniteSets, TLC

(* ------------------------------ bounds -------------------------------- *)
\* polling cycles the loop may start before the model stops it
MaxCycles == 1
\* packets the hosts send during one run
MaxPackets == 1
\* bytes one packet adds to a tunnel counter
PktBytes == 2
\* lines a link log may hold from an earlier run
MaxStale == 1

(* ------------------------ topology constants -------------------------- *)
H1_IP == "10.0.1.1"
H1_MAC == "08:00:00:00:01:11"
H2_IP == "10.0.2.2"
H2_MAC == "08:00:00:00:02:22"
H3_IP == "10.0.3.3"
H3_MAC == "08:00:00:00:03:33"

TID_S1_S2 == 100
TID_S2_S1 == 101
TID_S1_S3 == 200
TID_S3_S1 == 201
TID_S2_S3 == 300
TID_S3_S2 == 301

S1_H1_PORT == 1
S1_S2_PORT == 2
S1_S3_PORT == 3

S2_H2_PORT == 1
S2_S1_PORT == 2
S2_S3_PORT == 3

S3_H3_PORT == 1
S3_S1_PORT == 2
S3_S2_PORT == 3

\* the names given to the three Bmv2SwitchConnection objects
Switches == {"s1", "s2", "s3"}

Tids == {TID_S1_S2, TID_S2_S1, TID_S1_S3, TID_S3_S1, TID_S2_S3, TID_S3_S2}

\* the hosts of topology.json as the constants describe them
Hosts ==
  { [name |-> "h1", ip |-> H1_IP, mac |-> H1_MAC, sw |-> "s1", port |-> S1_H1_PORT],
    [name |-> "h2", ip |-> H2_IP, mac |-> H2_MAC, sw |-> "s2", port |-> S2_H2_PORT],
    [name |-> "h3", ip |-> H3_IP, mac |-> H3_MAC, sw |-> "s3", port |-> S3_H3_PORT] }

HostAt(sw) == CHOOSE h \in Hosts : h.sw = sw

\* the switch-to-switch ports: [sw, port, peer] says port of sw leads to peer
Wiring ==
  { [sw |-> "s1", port |-> S1_S2_PORT, peer |-> "s2"],
    [sw |-> "s1", port |-> S1_S3_PORT, peer |-> "s3"],
    [sw |-> "s2", port |-> S2_S1_PORT, peer |-> "s1"],
    [sw |-> "s2", port |-> S2_S3_PORT, peer |-> "s3"],
    [sw |-> "s3", port |-> S3_S1_PORT, peer |-> "s1"],
    [sw |-> "s3", port |-> S3_S2_PORT, peer |-> "s2"] }

PortToward(s, t) == (CHOOSE w \in Wiring : w.sw = s /\ w.peer = t).port

\* the directed tunnel paths and their identifiers
TunnelPaths ==
  { [src |-> "s1", dst |-> "s2", tid |-> TID_S1_S2],
    [src |-> "s2", dst |-> "s1", tid |-> TID_S2_S1],
    [src |-> "s1", dst |-> "s3", tid |-> TID_S1_S3],
    [src |-> "s3", dst |-> "s1", tid |-> TID_S3_S1],
    [src |-> "s2", dst |-> "s3", tid |-> TID_S2_S3],
    [src |-> "s3", dst |-> "s2", tid |-> TID_S3_S2] }

tid(s, t) == (CHOOSE p \in TunnelPaths : p.src = s /\ p.dst = t).tid

(* --------------------------- table entries ---------------------------- *)
\* the table entry writeL3ForwardRule builds and writes to sw
writeL3ForwardRule(sw, dst_ip_addr, dst_eth_addr, port) ==
  [ sw |-> sw, table |-> "MyIngress.ipv4_lpm",
    match |-> [ip |-> dst_ip_addr, plen |-> 32],
    action |-> "MyIngress.ipv4_forward",
    params |-> [dstAddr |-> dst_eth_addr, port |-> port] ]

\* writeTunnelIngressRule encapsulating with a neighbouring identifier
writeTunnelIngressRule_wrong_id(sw, dst_ip_addr, tunnel_id) ==
  [ sw |-> sw, table |-> "MyIngress.ipv4_lpm",
    match |-> [ip |-> dst_ip_addr, plen |-> 32],
    action |-> "MyIngress.myTunnel_ingress",
    params |-> [dst_id |-> tunnel_id + 1] ]

\* the table entry writeTunnelIngressRule builds and writes to sw
writeTunnelIngressRule(sw, dst_ip_addr, tunnel_id) ==
  [ sw |-> sw, table |-> "MyIngress.ipv4_lpm",
    match |-> [ip |-> dst_ip_addr, plen |-> 32],
    action |-> "MyIngress.myTunnel_ingress",
    params |-> [dst_id |-> tunnel_id] ]

\* the table entry writeTunnelTransitRule builds and writes to sw
writeTunnelTransitRule(sw, tunnel_id, port) ==
  [ sw |-> sw, table |-> "MyIngress.myTunnel_exact",
    match |-> [dst_id |-> tunnel_id],
    action |-> "MyIngress.myTunnel_forward",
    params |-> [port |-> port] ]

\* writeTunnelEgressRule with the body of writeTunnelTransitRule pasted in
writeTunnelEgressRule_as_transit(sw, tunnel_id, dst_eth_addr, port) ==
  [ sw |-> sw, table |-> "MyIngress.myTunnel_exact",
    match |-> [dst_id |-> tunnel_id],
    action |-> "MyIngress.myTunnel_forward",
    params |-> [port |-> port] ]

\* writeTunnelEgressRule delivering out the port after the given one
writeTunnelEgressRule_wrong_port(sw, tunnel_id, dst_eth_addr, port) ==
  [ sw |-> sw, table |-> "MyIngress.myTunnel_exact",
    match |-> [dst_id |-> tunnel_id],
    action |-> "MyIngress.myTunnel_egress",
    params |-> [dstAddr |-> dst_eth_addr, port |-> port + 1] ]

\* writeTunnelEgressRule matching on the even identifier of the pair
writeTunnelEgressRule_even_id(sw, tunnel_id, dst_eth_addr, port) ==
  [ sw |-> sw, table |-> "MyIngress.myTunnel_exact",
    match |-> [dst_id |-> tunnel_id - (tunnel_id % 2)],
    action |-> "MyIngress.myTunnel_egress",
    params |-> [dstAddr |-> dst_eth_addr, port |-> port] ]

\* the table entry writeTunnelEgressRule builds and writes to sw
writeTunnelEgressRule(sw, tunnel_id, dst_eth_addr, port) ==
  [ sw |-> sw, table |-> "MyIngress.myTunnel_exact",
    match |-> [dst_id |-> tunnel_id],
    action |-> "MyIngress.myTunnel_egress",
    params |-> [dstAddr |-> dst_eth_addr, port |-> port] ]

\* the entry no-write instructions carry
NoEntry == [sw |-> "none", table |-> "none"]

Connect(sw) == [op |-> "connect", sw |-> sw, entry |-> NoEntry]
Arbitrate(sw) == [op |-> "arbitrate", sw |-> sw, entry |-> NoEntry]
Push(sw) == [op |-> "push", sw |-> sw, entry |-> NoEntry]
Write(entry) == [op |-> "write", sw |-> entry.sw, entry |-> entry]

\* the three Bmv2SwitchConnection constructions and MasterArbitrationUpdates
ConnectSteps ==
  << Connect("s1"), Connect("s2"), Connect("s3"),
     Arbitrate("s1"), Arbitrate("s2"), Arbitrate("s3") >>

\* the image pushed to s1 a second time by a pasted line
PushSteps_twice == << Push("s1"), Push("s1"), Push("s2"), Push("s3") >>

\* the three SetForwardingPipelineConfig calls
PushSteps == << Push("s1"), Push("s2"), Push("s3") >>

\* the rule writes of main, in the order of the source
RuleSteps ==
  << Write(writeL3ForwardRule("s1", H1_IP, H1_MAC, S1_H1_PORT)),
     Write(writeL3ForwardRule("s2", H2_IP, H2_MAC, S2_H2_PORT)),
     Write(writeL3ForwardRule("s3", H3_IP, H3_MAC, S3_H3_PORT)),
     Write(writeTunnelIngressRule("s1", H2_IP, TID_S1_S2)),
     Write(writeTunnelTransitRule("s1", TID_S1_S2, S1_S2_PORT)),
     Write(writeTunnelEgressRule("s2", TID_S1_S2, H2_MAC, S2_H2_PORT)),
     Write(writeTunnelIngressRule("s2", H1_IP, TID_S2_S1)),
     Write(writeTunnelTransitRule("s2", TID_S2_S1, S2_S1_PORT)),
     Write(writeTunnelEgressRule("s1", TID_S2_S1, H1_MAC, S1_H1_PORT)),
     Write(writeTunnelIngressRule("s1", H3_IP, TID_S1_S3)),
     Write(writeTunnelTransitRule("s1", TID_S1_S3, S1_S3_PORT)),
     Write(writeTunnelEgressRule("s3", TID_S1_S3, H3_MAC, S3_H3_PORT)),
     Write(writeTunnelIngressRule("s3", H1_IP, TID_S3_S1)),
     Write(writeTunnelTransitRule("s3", TID_S3_S1, S3_S1_PORT)),
     Write(writeTunnelEgressRule("s1", TID_S3_S1, H1_MAC, S1_H1_PORT)),
     Write(writeTunnelIngressRule("s2", H3_IP, TID_S2_S3)),
     Write(writeTunnelTransitRule("s2", TID_S2_S3, S2_S3_PORT)),
     Write(writeTunnelEgressRule("s3", TID_S2_S3, H3_MAC, S3_H3_PORT)),
     Write(writeTunnelIngressRule("s3", H2_IP, TID_S3_S2)),
     Write(writeTunnelTransitRule("s3", TID_S3_S2, S3_S2_PORT)),
     Write(writeTunnelEgressRule("s2", TID_S3_S2, H2_MAC, S2_H2_PORT)) >>

\* main with the rule writes ahead of the pipeline pushes
Prog_rules_first == ConnectSteps \o RuleSteps \o PushSteps

\* the straight-line part of the try block of main, before the while loop
Prog == ConnectSteps \o PushSteps \o RuleSteps

\* the entries main asks the devices to install
RuleSet == { RuleSteps[i].entry : i \in 1..Len(RuleSteps) }

\* the log file names of main
s1s2_log == "S1S2.txt"
s1s3_log == "S1S3.txt"
s2s3_log == "S2S3.txt"

LogFiles == <<s1s2_log, s1s3_log, s2s3_log>>
Files == {s1s2_log, s1s3_log, s2s3_log}

\* the s3 -> s2 observation sent to the log of the s1-s3 link
Calls_misrouted ==
  << [src |-> "s1", dst |-> "s2", tid |-> TID_S1_S2, log |-> s1s2_log],
     [src |-> "s2", dst |-> "s1", tid |-> TID_S2_S1, log |-> s1s2_log],
     [src |-> "s1", dst |-> "s3", tid |-> TID_S1_S3, log |-> s1s3_log],
     [src |-> "s3", dst |-> "s1", tid |-> TID_S3_S1, log |-> s1s3_log],
     [src |-> "s2", dst |-> "s3", tid |-> TID_S2_S3, log |-> s2s3_log],
     [src |-> "s3", dst |-> "s2", tid |-> TID_S3_S2, log |-> s1s3_log] >>

\* the six process_link_counters calls of one cycle, in the order of the source
Calls ==
  << [src |-> "s1", dst |-> "s2", tid |-> TID_S1_S2, log |-> s1s2_log],
     [src |-> "s2", dst |-> "s1", tid |-> TID_S2_S1, log |-> s1s2_log],
     [src |-> "s1", dst |-> "s3", tid |-> TID_S1_S3, log |-> s1s3_log],
     [src |-> "s3", dst |-> "s1", tid |-> TID_S3_S1, log |-> s1s3_log],
     [src |-> "s2", dst |-> "s3", tid |-> TID_S2_S3, log |-> s2s3_log],
     [src |-> "s3", dst |-> "s2", tid |-> TID_S3_S2, log |-> s2s3_log] >>

(* ------------------------ pure parts of the code ---------------------- *)
\* the counter entry a device holds for one index: packets and bytes
Entry(p) == [packet_count |-> p, byte_count |-> p * PktBytes]

RECURSIVE Flatten(_)
\* the entities of a response stream in the order the two for loops visit them
Flatten(stream) ==
  IF stream = <<>> THEN <<>> ELSE Head(stream) \o Flatten(Tail(stream))

\* read_counter without its try/except: the exception leaves the function
read_counter_no_except(resp) ==
  LET ents == Flatten(resp.stream) IN
  IF ents # <<>>
    THEN [ret |-> <<ents[1].packet_count, ents[1].byte_count>>, raised |-> "none"]
    ELSE [ret |-> <<0, 0>>, raised |-> resp.raises]

\* read_counter returning after the loops, with the last entry seen
read_counter_last(resp) ==
  LET ents == Flatten(resp.stream) IN
  IF ents # <<>>
    THEN [ret |-> <<ents[Len(ents)].packet_count, ents[Len(ents)].byte_count>>,
          raised |-> "none"]
    ELSE [ret |-> <<0, 0>>, raised |-> "none"]

\* read_counter on a response [stream, raises]: stream is what ReadCounters
\* yields, raises the exception that ends it ("none", "rpc" or "other").
\* ret is the returned pair, raised the exception that leaves the function.
read_counter(resp) ==
  LET ents == Flatten(resp.stream) IN
  IF ents # <<>>
    THEN [ret |-> <<ents[1].packet_count, ents[1].byte_count>>, raised |-> "none"]
    ELSE [ret |-> <<0, 0>>, raised |-> "none"]

\* log_to_file opening the file with 'w'
log_to_file_w(content, message) == <<message>>

\* log_to_file: the content of the file after open(filepath, 'a') and write
log_to_file(content, message) == Append(content, message)

\* file_msg_ing of process_link_counters
file_msg_ing(timestamp, sw_src_name, p_ing, tunnel_id) ==
  [ts |-> timestamp, sw |-> sw_src_name, verb |-> "sent", n |-> p_ing, tid |-> tunnel_id]

\* file_msg_eg written with the wording of file_msg_ing
file_msg_eg_sent(timestamp, sw_dst_name, p_eg, tunnel_id) ==
  [ts |-> timestamp, sw |-> sw_dst_name, verb |-> "sent", n |-> p_eg, tid |-> tunnel_id]

\* file_msg_eg of process_link_counters
file_msg_eg(timestamp, sw_dst_name, p_eg, tunnel_id) ==
  [ts |-> timestamp, sw |-> sw_dst_name, verb |-> "received", n |-> p_eg, tid |-> tunnel_id]

\* a line an earlier run of the controller left in log file f: the first
\* line a cycle appends to it
StaleLine(f) ==
  LET c == Calls[CHOOSE i \in 1..Len(Calls) :
                   Calls[i].log = f /\ \A j \in 1..(i - 1) : Calls[j].log # f]
  IN file_msg_ing(0, c.src, 0, c.tid)

RECURSIVE SeqsUpTo(_, _)
\* the sequences over S of length at most n
SeqsUpTo(S, n) ==
  IF n = 0 THEN {<<>>}
  ELSE LET shorter == SeqsUpTo(S, n - 1) IN
       shorter \cup { Append(q, x) : q \in shorter, x \in S }

(* ------------------------------- state -------------------------------- *)
VARIABLES
  args,        \* [p4info, bmv2_json]: whether each path of the command line exists
  pc,          \* the position of the program
  exitStatus,  \* the process exit status, -1 while it runs
  caught,      \* the exception a handler of main caught, "none" before
  ip,          \* the index in Prog of the next instruction of the try block
  call,        \* the index in Calls of the running process_link_counters call
  cycle,       \* the polling cycles completed
  result,      \* the pair the last read_counter returned, not yet logged
  conns,       \* the device handles opened (the connections list of the library)
  released,    \* whether ShutdownAllSwitchConnections was executed
  pipeline,    \* the devices that hold a pipeline image
  tables,      \* the table entries each device holds
  counters,    \* the tunnel counters of each device: [sw][kind][tid]
  logs,        \* the lines of each log file
  pushes,      \* how many pipeline pushes each device completed in this run
  writes,      \* the table entries written in this run, in order
  truncs,      \* how many times each log file was truncated in this run
  lastRead,    \* how the read not yet logged ended: "rpc", "raised", "empty", "entry"
  faulted,     \* whether a counter read of the current cycle raised or was empty
  hung,        \* whether the counter read under way waits on a silent device
  reads,       \* the ReadCounters calls of the current cycle: [sw, kind, index]
  keeps,       \* whether the devices keep their entries when an image is pushed
  sent         \* the packets the hosts sent while the controller ran

vars ==
  << args, pc, exitStatus, caught, ip, call, cycle, result, conns, released, pipeline,
     tables, counters, logs, pushes, writes, truncs, lastRead, faulted, hung, reads,
     keeps, sent >>

progVars == << ip, call, cycle, result >>
devVars == << pipeline, tables, counters, pushes, writes, keeps >>
logVars == << logs, truncs >>
readVars == << lastRead, faulted, hung, reads >>
pktVars == << sent >>

ZeroCounters == [k \in {"ing", "eg"} |-> [t \in Tids |-> 0]]

\* the entries a completed provisioning leaves on each device
Installed == [sw \in Switches |-> { e \in RuleSet : e.sw = sw }]

Init ==
  /\ args \in [p4info : BOOLEAN, bmv2_json : BOOLEAN]
  /\ pc = "entry"
  /\ exitStatus = -1
  /\ caught = "none"
  /\ ip = 1
  /\ call = 1
  /\ cycle = 0
  /\ result = <<0, 0>>
  /\ conns = {}
  /\ released = FALSE
  /\ pipeline = {}
  /\ tables \in { [sw \in Switches |-> {}], Installed }
  /\ keeps \in BOOLEAN
  /\ keeps => tables = Installed
  /\ counters = [sw \in Switches |-> ZeroCounters]
  /\ logs \in { l \in [Files -> SeqsUpTo({StaleLine(f) : f \in Files}, MaxStale)] :
                  \A f \in Files : l[f] \in SeqsUpTo({StaleLine(f)}, MaxStale) }
  /\ pushes = [sw \in Switches |-> 0]
  /\ writes = <<>>
  /\ truncs = [f \in Files |-> 0]
  /\ lastRead = "none"
  /\ faulted = FALSE
  /\ hung = FALSE
  /\ reads = <<>>
  /\ sent = 0

(* --------------------------- the entry point -------------------------- *)
\* __main__ with a missing path: usage, message, parser.exit(1)
EntryMissing ==
  /\ pc = "entry"
  /\ ~args.p4info \/ ~args.bmv2_json
  /\ pc' = "exited"
  /\ exitStatus' = 1
  /\ UNCHANGED << args, caught, progVars, conns, released, devVars, logVars, readVars,
                  pktVars >>

\* __main__ calling main without the os.path.exists checks
EntryMain_unchecked ==
  /\ pc = "entry"
  /\ pc' = "helper"
  /\ UNCHANGED << args, exitStatus, caught, progVars, conns, released, devVars,
                  logVars, readVars, pktVars >>

\* __main__ with both paths present: main is called
EntryMain ==
  /\ pc = "entry"
  /\ args.p4info /\ args.bmv2_json
  /\ pc' = "helper"
  /\ UNCHANGED << args, exitStatus, caught, progVars, conns, released, devVars,
                  logVars, readVars, pktVars >>

\* an exception leaves main uncaught: the process ends with a traceback and
\* ShutdownAllSwitchConnections is not reached
Uncaught ==
  /\ pc' = "crashed"
  /\ exitStatus' = 1
  /\ UNCHANGED caught

\* an exception raised in the loop body unwinds process_link_counters: the
\* position in the loop body and the locals of the call are gone, and no
\* cycle is under way any more
Unwind ==
  /\ call' = 1
  /\ result' = <<0, 0>>
  /\ lastRead' = "none"
  /\ faulted' = FALSE
  /\ hung' = FALSE
  /\ reads' = <<>>

\* P4InfoHelper(p4info_file_path) of main; it raises on an unreadable file
MakeHelper ==
  /\ pc = "helper"
  /\ \/ pc' = "trunc1" /\ UNCHANGED << exitStatus, caught >>
     \/ Uncaught
  /\ UNCHANGED << args, progVars, conns, released, devVars, logVars, readVars, pktVars >>

\* the pc at which LogFiles[i] is truncated, and the one after it
TruncPc(i) == IF i = 1 THEN "trunc1" ELSE IF i = 2 THEN "trunc2" ELSE "trunc3"
AfterTrunc(i) == IF i < 3 THEN TruncPc(i + 1) ELSE "prov"

\* open(log, 'w').close() of main, or the OSError of an unwritable file
Truncate(i) ==
  /\ pc = TruncPc(i)
  /\ \/ /\ logs' = [logs EXCEPT ![LogFiles[i]] = <<>>]
        /\ truncs' = [truncs EXCEPT ![LogFiles[i]] = @ + 1]
        /\ pc' = AfterTrunc(i)
        /\ UNCHANGED << exitStatus, caught >>
     \/ Uncaught /\ UNCHANGED logVars
  /\ UNCHANGED << args, progVars, conns, released, devVars, readVars, pktVars >>

(* ------------------------ the try block of main ----------------------- *)
\* the positions inside the try block
TryPcs == {"prov", "sleep", "read_ing", "log_ing", "read_eg", "log_eg"}

\* the positions of the polling loop
PollPcs == {"sleep", "read_ing", "log_ing", "read_eg", "log_eg"}

\* the second handler inside the while loop: the error is printed and the
\* loop goes on
RaiseRpc_resumes ==
  /\ pc' = "sleep"
  /\ caught' = "RpcError"
  /\ UNCHANGED exitStatus

\* a grpc.RpcError raised inside the try block: the second handler catches
\* it, printGrpcError reports it, and main goes on to its last statement
RaiseRpc ==
  /\ pc' = "shutdown"
  /\ caught' = "RpcError"
  /\ UNCHANGED exitStatus

\* the instruction at ip completed: the next one, or the while loop
Advance ==
  /\ ip' = ip + 1
  /\ pc' = IF ip = Len(Prog) THEN "sleep" ELSE "prov"
  /\ UNCHANGED << exitStatus, caught >>

AtOp(op) == pc = "prov" /\ ip <= Len(Prog) /\ Prog[ip].op = op

\* Bmv2SwitchConnection(name, address, device_id, proto_dump_file): the handle
\* joins the connections of the library, or opening the dump file raises
ProvConnect ==
  /\ AtOp("connect")
  /\ \/ conns' = conns \cup {Prog[ip].sw} /\ Advance
     \/ Uncaught /\ UNCHANGED << conns, ip >>
  /\ UNCHANGED << args, call, cycle, result, released, devVars, logVars, readVars, pktVars >>

\* sw.MasterArbitrationUpdate(), or the RpcError of an unreachable device
ProvArbitrate ==
  /\ AtOp("arbitrate")
  /\ \/ Advance
     \/ RaiseRpc /\ UNCHANGED ip
  /\ UNCHANGED << args, call, cycle, result, conns, released, devVars, logVars,
                  readVars, pktVars >>

\* sw.SetForwardingPipelineConfig(...): the device takes the image and starts
\* with zero counters and, unless it keeps its entries, with empty tables; or
\* the call raises RpcError
ProvPush ==
  /\ AtOp("push")
  /\ LET sw == Prog[ip].sw IN
     \/ /\ pipeline' = pipeline \cup {sw}
        /\ tables' = IF keeps THEN tables ELSE [tables EXCEPT ![sw] = {}]
        /\ counters' = [counters EXCEPT ![sw] = ZeroCounters]
        /\ pushes' = [pushes EXCEPT ![sw] = @ + 1]
        /\ Advance
     \/ RaiseRpc /\ UNCHANGED << ip, pipeline, tables, counters, pushes >>
  /\ UNCHANGED << args, call, cycle, result, conns, released, writes, keeps, logVars,
                  readVars, pktVars >>

\* a device takes an INSERT when it holds an image and no entry of the table
\* has the same match key
DeviceAccepts(sw, entry) ==
  /\ sw \in pipeline
  /\ ~ \E e \in tables[sw] : e.table = entry.table /\ e.match = entry.match

\* the write* functions sending their entry as a DELETE update, which a
\* device carries out on an entry it holds
ProvWrite_delete ==
  /\ AtOp("write")
  /\ LET sw == Prog[ip].sw
         entry == Prog[ip].entry IN
     \/ /\ sw \in pipeline /\ entry \in tables[sw]
        /\ tables' = [tables EXCEPT ![sw] = @ \ {entry}]
        /\ writes' = Append(writes, entry)
        /\ Advance
     \/ RaiseRpc /\ UNCHANGED << ip, tables, writes >>
     \/ Uncaught /\ UNCHANGED << ip, tables, writes >>
  /\ UNCHANGED << args, call, cycle, result, conns, released, pipeline, counters,
                  pushes, keeps, logVars, readVars, pktVars >>

\* one of the write* functions: buildTableEntry (which may raise), then
\* sw.WriteTableEntry(table_entry), accepted by the device or raising RpcError
ProvWrite ==
  /\ AtOp("write")
  /\ LET sw == Prog[ip].sw
         entry == Prog[ip].entry IN
     \/ /\ DeviceAccepts(sw, entry)
        /\ tables' = [tables EXCEPT ![sw] = @ \cup {entry}]
        /\ writes' = Append(writes, entry)
        /\ Advance
     \/ RaiseRpc /\ UNCHANGED << ip, tables, writes >>
     \/ Uncaught /\ UNCHANGED << ip, tables, writes >>
  /\ UNCHANGED << args, call, cycle, result, conns, released, pipeline, counters,
                  pushes, keeps, logVars, readVars, pktVars >>

(* -------------------------- the polling loop -------------------------- *)
\* what sw.ReadCounters(id, index) may do when the device holds value p for
\* the counter: a stream of responses, each a sequence of counter entries,
\* ended normally or by an exception
Responses(p) ==
  { [stream |-> <<>>, raises |-> "rpc"],
    [stream |-> <<>>, raises |-> "other"],
    [stream |-> << <<>> >>, raises |-> "rpc"],
    [stream |-> <<>>, raises |-> "none"],
    [stream |-> << <<>> >>, raises |-> "none"],
    [stream |-> << <<Entry(p)>> >>, raises |-> "none"],
    [stream |-> << <<>>, <<Entry(p)>> >>, raises |-> "none"],
    [stream |-> << <<Entry(p), Entry(p + 1)>> >>, raises |-> "none"],
    [stream |-> << <<Entry(p)>> >>, raises |-> "rpc"] }

\* how a read ended, for the record: with an entry, with a grpc.RpcError,
\* with another exception, or with an empty stream
ReadKind(resp) ==
  IF Flatten(resp.stream) # <<>> THEN "entry"
  ELSE IF resp.raises = "rpc" THEN "rpc"
  ELSE IF resp.raises # "none" THEN "raised" ELSE "empty"

\* sleep(2) and the head of the loop body: the next cycle starts
Sleep ==
  /\ pc = "sleep"
  /\ cycle < MaxCycles
  /\ pc' = "read_ing"
  /\ call' = 1
  /\ faulted' = FALSE
  /\ reads' = <<>>
  /\ UNCHANGED << args, exitStatus, caught, ip, cycle, result, conns, released,
                  devVars, logVars, lastRead, hung, pktVars >>

\* the ReadCounters call the running process_link_counters makes on sw
ReadCall(sw, kind) == [sw |-> sw, kind |-> kind, index |-> Calls[call].tid]

\* read_counter(p4info_helper, sw, kind, tunnel_id) called at pc = at: what
\* it returns is kept for the log append; an exception that leaves it goes
\* the way of any exception of the try block. sw.ReadCounters is called
\* without a deadline: a device that never answers keeps the call waiting.
ReadStep(at, next, sw, kind) ==
  /\ pc = at
  /\ ~hung
  /\ \/ \E resp \in Responses(counters[sw][kind][Calls[call].tid]) :
          LET r == read_counter(resp) IN
          IF r.raised = "none"
            THEN /\ result' = r.ret
                 /\ lastRead' = ReadKind(resp)
                 /\ faulted' = (faulted \/ ReadKind(resp) # "entry")
                 /\ pc' = next
                 /\ reads' = Append(reads, ReadCall(sw, kind))
                 /\ UNCHANGED << call, exitStatus, caught, hung >>
            ELSE /\ Unwind
                 /\ IF r.raised = "rpc" THEN RaiseRpc ELSE Uncaught
     \/ /\ hung' = TRUE
        /\ reads' = Append(reads, ReadCall(sw, kind))
        /\ UNCHANGED << pc, call, exitStatus, caught, result, lastRead, faulted >>
  /\ UNCHANGED << args, ip, cycle, conns, released, devVars, logVars, pktVars >>

\* the ingress read of process_link_counters, on the source device
ReadIngress == ReadStep("read_ing", "log_ing", Calls[call].src, "ing")

\* process_link_counters passing sw_src to its second read_counter call
ReadEgress_at_source == ReadStep("read_eg", "log_eg", Calls[call].src, "eg")

\* the egress read of process_link_counters, on the destination device
ReadEgress == ReadStep("read_eg", "log_eg", Calls[call].dst, "eg")

\* the timestamp process_link_counters takes when it starts
Timestamp == cycle * Len(Calls) + call

\* log_to_file(log_file, file_msg_ing), or the OSError of a failed append
LogIngress ==
  /\ pc = "log_ing"
  /\ LET c == Calls[call] IN
     \/ /\ logs' = [logs EXCEPT ![c.log] =
                      log_to_file(@, file_msg_ing(Timestamp, c.src, result[1], c.tid))]
        /\ pc' = "read_eg"
        /\ result' = <<0, 0>>
        /\ lastRead' = "none"
        /\ UNCHANGED << exitStatus, caught, call, faulted, hung, reads >>
     \/ Uncaught /\ Unwind /\ UNCHANGED logs
  /\ UNCHANGED << args, ip, cycle, conns, released, devVars, truncs, pktVars >>

\* log_to_file(log_file, file_msg_eg), then the next call or the next cycle
LogEgress ==
  /\ pc = "log_eg"
  /\ LET c == Calls[call] IN
     \/ /\ logs' = [logs EXCEPT ![c.log] =
                      log_to_file(@, file_msg_eg(Timestamp, c.dst, result[1], c.tid))]
        /\ IF call < Len(Calls)
             THEN pc' = "read_ing" /\ call' = call + 1 /\ UNCHANGED cycle
             ELSE pc' = "sleep" /\ call' = 1 /\ cycle' = cycle + 1
        /\ result' = <<0, 0>>
        /\ lastRead' = "none"
        /\ UNCHANGED << exitStatus, caught, faulted, hung, reads >>
     \/ Uncaught /\ Unwind /\ UNCHANGED << logs, cycle >>
  /\ UNCHANGED << args, ip, conns, released, devVars, truncs, pktVars >>

(* --------------------- interrupt, handlers, shutdown ------------------ *)
\* the first handler of main ending with a return: main ends without its
\* last statement
Interrupt_returns ==
  /\ \/ /\ pc \in TryPcs
        /\ pc' = "done"
        /\ caught' = "KeyboardInterrupt"
        /\ exitStatus' = 0
     \/ /\ pc \in {"helper", "trunc1", "trunc2", "trunc3"}
        /\ Uncaught
  /\ Unwind
  /\ UNCHANGED << args, ip, cycle, conns, released, devVars, logVars, pktVars >>

\* the operator's interrupt (KeyboardInterrupt): inside the try block the
\* first handler catches it and prints " Shutting down."; before the try
\* block nothing catches it
Interrupt ==
  /\ \/ /\ pc \in TryPcs
        /\ pc' = "shutdown"
        /\ caught' = "KeyboardInterrupt"
        /\ UNCHANGED exitStatus
     \/ /\ pc \in {"helper", "trunc1", "trunc2", "trunc3"}
        /\ Uncaught
  /\ Unwind
  /\ UNCHANGED << args, ip, cycle, conns, released, devVars, logVars, pktVars >>

\* ShutdownAllSwitchConnections(), the last statement of main
Shutdown ==
  /\ pc = "shutdown"
  /\ released' = TRUE
  /\ pc' = "done"
  /\ exitStatus' = 0
  /\ UNCHANGED << args, progVars, conns, caught, devVars, logVars, readVars, pktVars >>

(* ----------------------------- the data plane -------------------------- *)
\* switches a packet may visit before the model drops it
MaxHops == 3

\* the entries of a table that match a key
Lookup(tbl, table, key) == { e \in tbl : e.table = table /\ e.match = key }

\* the ingress pipeline of the tunnel program on a device holding the entries
\* tbl, applied to pkt = [dstIp, dstMac, tunnel] (tunnel 0: no tunnel header):
\* ipv4_lpm for untunnelled packets, then myTunnel_exact for tunnelled ones.
\* port 0 says the packet is dropped; ing and eg are the counter indexes counted.
Pipeline(tbl, pkt) ==
  LET lpm == IF pkt.tunnel = 0
               THEN Lookup(tbl, "MyIngress.ipv4_lpm", [ip |-> pkt.dstIp, plen |-> 32])
               ELSE {}
      s1 == IF lpm = {} THEN [pkt |-> pkt, port |-> 0, ing |-> 0]
            ELSE LET e == CHOOSE x \in lpm : TRUE IN
                 IF e.action = "MyIngress.ipv4_forward"
                   THEN [pkt |-> [pkt EXCEPT !.dstMac = e.params.dstAddr],
                         port |-> e.params.port, ing |-> 0]
                   ELSE [pkt |-> [pkt EXCEPT !.tunnel = e.params.dst_id],
                         port |-> 0, ing |-> e.params.dst_id]
      exact == IF s1.pkt.tunnel # 0
                 THEN Lookup(tbl, "MyIngress.myTunnel_exact", [dst_id |-> s1.pkt.tunnel])
                 ELSE {}
  IN
  IF s1.pkt.tunnel = 0 THEN [pkt |-> s1.pkt, port |-> s1.port, ing |-> 0, eg |-> 0]
  ELSE IF exact = {} THEN [pkt |-> s1.pkt, port |-> 0, ing |-> s1.ing, eg |-> 0]
  ELSE LET e == CHOOSE x \in exact : TRUE IN
       IF e.action = "MyIngress.myTunnel_forward"
         THEN [pkt |-> s1.pkt, port |-> e.params.port, ing |-> s1.ing, eg |-> 0]
         ELSE [pkt |-> [s1.pkt EXCEPT !.dstMac = e.params.dstAddr, !.tunnel = 0],
               port |-> e.params.port, ing |-> s1.ing, eg |-> s1.pkt.tunnel]

RECURSIVE Travel(_, _, _, _, _)
\* the switches a packet visits from sw on, with what each did to it
Travel(tbls, loaded, sw, pkt, n) ==
  IF n = 0 \/ sw \notin loaded THEN <<>>
  ELSE LET r == Pipeline(tbls[sw], pkt)
           hop == [sw |-> sw, tunnel |-> r.pkt.tunnel, mac |-> r.pkt.dstMac,
                   port |-> r.port, ing |-> r.ing, eg |-> r.eg]
           wires == { w \in Wiring : w.sw = sw /\ w.port = r.port }
       IN IF wires = {} THEN <<hop>>
          ELSE <<hop>> \o Travel(tbls, loaded, (CHOOSE w \in wires : TRUE).peer, r.pkt, n - 1)

\* where the packet ended: the host behind the last port, or "dropped"
Outcome(hops) ==
  IF hops = <<>> THEN "dropped"
  ELSE LET last == hops[Len(hops)]
           at == { h \in Hosts : h.sw = last.sw /\ h.port = last.port }
       IN IF at = {} THEN "dropped" ELSE (CHOOSE h \in at : TRUE).name

RECURSIVE Count(_, _)
\* the counters after the hops counted the packet: the ingress action counts
\* ingressTunnelCounter[dst_id], the egress action egressTunnelCounter[dst_id]
Count(cnt, hops) ==
  IF hops = <<>> THEN cnt
  ELSE LET h == Head(hops)
           c1 == IF h.ing = 0 THEN cnt
                 ELSE [cnt EXCEPT ![h.sw]["ing"][h.ing] = @ + 1]
           c2 == IF h.eg = 0 THEN c1
                 ELSE [c1 EXCEPT ![h.sw]["eg"][h.eg] = @ + 1]
       IN Count(c2, Tail(hops))

\* the packet host a sends to host b
PacketTo(b) == [dstIp |-> b.ip, dstMac |-> "ff:ff:ff:ff:ff:ff", tunnel |-> 0]

\* while the controller polls, host a sends one IPv4 packet to host b through
\* the devices as they are and the devices count it; a packet that arrives
\* between two counter reads is taken to arrive just before the later one
SendPacket ==
  /\ pc \in {"read_ing", "read_eg"}
  /\ sent < MaxPackets
  /\ \E a \in Hosts : \E b \in Hosts \ {a} :
       counters' = Count(counters, Travel(tables, pipeline, a.sw, PacketTo(b), MaxHops))
  /\ sent' = sent + 1
  /\ UNCHANGED << args, pc, exitStatus, caught, progVars, conns, released, pipeline, tables,
                  pushes, writes, keeps, logVars, readVars >>

(* --------------------------- the specification ------------------------ *)
Next ==
  \/ EntryMissing
  \/ EntryMain
  \/ MakeHelper
  \/ \E i \in 1..Len(LogFiles) : Truncate(i)
  \/ ProvConnect
  \/ ProvArbitrate
  \/ ProvPush
  \/ ProvWrite
  \/ Sleep
  \/ ReadIngress
  \/ LogIngress
  \/ ReadEgress
  \/ LogEgress
  \/ Interrupt
  \/ Shutdown
  \/ SendPacket

Spec == Init /\ [][Next]_vars

\* the steps of the controller itself: main is one sequential thread, so the
\* statement it stands at is executed whenever it can be; the interrupt and
\* the hosts' packets come from outside and may never come
Controller ==
  \/ EntryMissing
  \/ EntryMain
  \/ MakeHelper
  \/ \E i \in 1..Len(LogFiles) : Truncate(i)
  \/ ProvConnect
  \/ ProvArbitrate
  \/ ProvPush
  \/ ProvWrite
  \/ Sleep
  \/ ReadIngress
  \/ LogIngress
  \/ ReadEgress
  \/ LogEgress
  \/ Shutdown

LiveSpec == Spec /\ WF_vars(Controller)

(* ------------------------------ properties ---------------------------- *)
\* provisioning completed: every instruction of Prog succeeded
Provisioned == ip > Len(Prog)

\* main ended, by its last statement or by an exception nothing caught
MainEnded == pc \in {"done", "crashed"}

IsPrefix(s, t) == Len(s) <= Len(t) /\ SubSeq(t, 1, Len(s)) = s

\* C1: on every device the pipeline push has completed before a rule write
\* targeting the device is issued: every write already made, and the write
\* main is about to issue, goes to a device whose push of this run is done.
C1_PushBeforeWrite ==
  /\ \A i \in 1..Len(writes) : pushes[writes[i].sw] >= 1
  /\ AtOp("write") => pushes[Prog[ip].sw] >= 1

C1_Witness == Len(writes) = Len(RuleSteps)

\* C2: whenever main has ended after a device session was opened, the device
\* handles were released by ShutdownAllSwitchConnections.
C2_ReleasedOnEveryExit == (MainEnded /\ conns # {}) => released

\* the lines process_link_counters call j of cycle k appends
SentLine(k, j, n) ==
  file_msg_ing((k - 1) * Len(Calls) + j, Calls[j].src, n, Calls[j].tid)
ReceivedLine(k, j, n) ==
  file_msg_eg((k - 1) * Len(Calls) + j, Calls[j].dst, n, Calls[j].tid)

\* line l is in file f when its packet count is left aside
Logged(f, l) == \E i \in 1..Len(logs[f]) : [logs[f][i] EXCEPT !.n = 0] = l

\* a call of read_counter ended in this step (the other steps from these
\* positions are a packet, which leaves pc alone, and the interrupt)
ReadEnded ==
  /\ pc \in {"read_ing", "read_eg"}
  /\ pc' # pc
  /\ caught' # "KeyboardInterrupt"

\* C3: a counter read that raises or comes back empty does not abort the
\* cycle: every call of read_counter returns to process_link_counters, which
\* goes on to the log append of the same counter in the same call, with a
\* zero reading when the read failed; and a cycle in which a read failed still
\* ends at the head of the loop with both lines of every one of the six
\* paths appended.
C3_ReadFailureAbsorbed ==
  /\ [][ ReadEnded =>
           /\ pc' = (IF pc = "read_ing" THEN "log_ing" ELSE "log_eg")
           /\ call' = call /\ cycle' = cycle
           /\ lastRead' \in {"rpc", "raised", "empty", "entry"}
           /\ lastRead' # "entry" => result' = <<0, 0>> ]_vars
  /\ []( (pc = "sleep" /\ faulted) =>
           /\ cycle >= 1
           /\ \A j \in 1..Len(Calls) :
                /\ Logged(Calls[j].log, SentLine(cycle, j, 0))
                /\ Logged(Calls[j].log, ReceivedLine(cycle, j, 0)) )

C3_Witness == pc = "sleep" /\ faulted /\ cycle >= 1

\* C4 as stated: the pair read_counter returned is (0, 0) exactly when the
\* read raised or returned no entry.
C4_ZeroExactlyOnFailure ==
  pc \in {"log_ing", "log_eg"} =>
    ((result = <<0, 0>>) <=> (lastRead \in {"rpc", "raised", "empty"}))

\* the counter a read at pc reads: device, kind, index
ReadValue ==
  LET c == Calls[call] IN
  IF pc = "read_ing" THEN counters[c.src]["ing"][c.tid] ELSE counters[c.dst]["eg"][c.tid]

\* C4 amended: read_counter returns (0, 0) whenever the read raised or
\* returned no entry, and otherwise the packet and byte counts of the first
\* entry the device returned (which are (0, 0) too while the counter has
\* counted nothing); the line appended next carries the packet count of this
\* result.
C4_ReadResult ==
  [][ /\ ReadEnded =>
           IF lastRead' = "entry"
             THEN result' = <<ReadValue, ReadValue * PktBytes>>
             ELSE result' = <<0, 0>>
      /\ (pc \in {"log_ing", "log_eg"} /\ logs' # logs) =>
           LET f == Calls[call].log IN
           /\ Len(logs'[f]) = Len(logs[f]) + 1
           /\ logs'[f][Len(logs'[f])].n = result[1] ]_vars

C4_Witness == pc \in {"log_ing", "log_eg"} /\ lastRead = "entry" /\ result[1] > 0

\* C5: each log file is truncated at most once, it has been truncated before
\* a device is contacted or a line is appended, and a step that does not
\* truncate a file leaves its earlier content as a prefix of its content.
C5_TruncateOnceThenAppendOnly ==
  /\ []( \A f \in Files :
           /\ truncs[f] <= 1
           /\ (pc \in TryPcs \/ conns # {} \/ ip > 1) => truncs[f] = 1 )
  /\ [][ \A f \in Files :
           IF truncs'[f] # truncs[f]
             THEN /\ truncs[f] = 0 /\ truncs'[f] = 1
                  /\ logs'[f] = <<>>
                  /\ conns = {} /\ ip = 1 /\ pc \notin TryPcs
             ELSE IsPrefix(logs[f], logs'[f]) ]_vars

C5_Witness == \A f \in Files : truncs[f] = 1 /\ Len(logs[f]) >= 2

\* the log destination of each unordered link
LinkLog(s, t) ==
  IF {s, t} = {"s1", "s2"} THEN s1s2_log
  ELSE IF {s, t} = {"s1", "s3"} THEN s1s3_log ELSE s2s3_log

\* C6: every line in a log file belongs to a directed path of the link of
\* that file (its tunnel id is that of S->T or T->S and its device is S or
\* T), and after a completed cycle the lines of both directions of a link are
\* in the file of the link.
C6_LinesInLinkLog ==
  /\ \A p \in TunnelPaths : \A f \in Files : \A i \in 1..Len(logs[f]) :
       logs[f][i].tid = p.tid =>
         /\ f = LinkLog(p.src, p.dst)
         /\ logs[f][i].sw \in {p.src, p.dst}
  /\ (pc = "sleep" /\ cycle >= 1) =>
       \A p \in TunnelPaths : \E i \in 1..Len(logs[LinkLog(p.src, p.dst)]) :
         /\ logs[LinkLog(p.src, p.dst)][i].tid = p.tid
         /\ logs[LinkLog(p.src, p.dst)][i].ts > 0

C6_Witness == pc = "sleep" /\ cycle >= 1 /\ \A f \in Files : Len(logs[f]) = 4 * cycle

(* the rules section 4.2 of the design asks for, from the topology *)
LocalDelivery(h) ==
  [ sw |-> h.sw, table |-> "MyIngress.ipv4_lpm",
    match |-> [ip |-> h.ip, plen |-> 32],
    action |-> "MyIngress.ipv4_forward",
    params |-> [dstAddr |-> h.mac, port |-> h.port] ]

TunnelIngress(p) ==
  [ sw |-> p.src, table |-> "MyIngress.ipv4_lpm",
    match |-> [ip |-> HostAt(p.dst).ip, plen |-> 32],
    action |-> "MyIngress.myTunnel_ingress",
    params |-> [dst_id |-> p.tid] ]

TunnelTransit(p) ==
  [ sw |-> p.src, table |-> "MyIngress.myTunnel_exact",
    match |-> [dst_id |-> p.tid],
    action |-> "MyIngress.myTunnel_forward",
    params |-> [port |-> PortToward(p.src, p.dst)] ]

TunnelEgress(p) ==
  [ sw |-> p.dst, table |-> "MyIngress.myTunnel_exact",
    match |-> [dst_id |-> p.tid],
    action |-> "MyIngress.myTunnel_egress",
    params |-> [dstAddr |-> HostAt(p.dst).mac, port |-> HostAt(p.dst).port] ]

ExpectedRules ==
  { LocalDelivery(h) : h \in Hosts } \cup { TunnelIngress(p) : p \in TunnelPaths }
    \cup { TunnelTransit(p) : p \in TunnelPaths } \cup { TunnelEgress(p) : p \in TunnelPaths }

\* the ordered pairs of distinct hosts
HostPairs == { ab \in Hosts \X Hosts : ab[1] # ab[2] }

\* the two switches a packet from host a to host b must visit, with what each does
ExpectedHops ==
  [ ab \in HostPairs |->
      LET a == ab[1]
          b == ab[2]
      IN << [ sw |-> a.sw, tunnel |-> tid(a.sw, b.sw), mac |-> PacketTo(b).dstMac,
              port |-> PortToward(a.sw, b.sw), ing |-> tid(a.sw, b.sw), eg |-> 0 ],
            [ sw |-> b.sw, tunnel |-> 0, mac |-> b.mac, port |-> b.port,
              ing |-> 0, eg |-> tid(a.sw, b.sw) ] >> ]

\* through devices that hold the entries of a completed provisioning, the
\* packet of every ordered pair of hosts makes the two expected hops and
\* reaches its destination
InstalledDelivers ==
  \A ab \in HostPairs :
    LET hops == Travel(Installed, Switches, ab[1].sw, PacketTo(ab[2]), MaxHops) IN
    /\ hops = ExpectedHops[ab]
    /\ Outcome(hops) = ab[2].name

\* C7: once provisioning has completed, a packet from any host A (on S) to
\* any other host B (on T) is encapsulated on S with the identifier of S->T
\* and leaves S by its port toward T, is decapsulated on T and leaves T by
\* B's port with B's link-layer address; for h1 to h3 these two hops are s1
\* (ingress, id 200, out the port toward s3) and s3 (egress, out h3's port
\* with h3's link-layer address).
C7_EndToEnd ==
  Provisioned =>
    /\ tables = Installed /\ pipeline = Switches
    /\ InstalledDelivers
    /\ LET hops == ExpectedHops[<<HostAt("s1"), HostAt("s3")>>] IN
       /\ Len(hops) = 2
       /\ hops[1].sw = "s1" /\ hops[1].ing = 200 /\ hops[1].tunnel = 200
       /\ hops[1].port = S1_S3_PORT
       /\ hops[2].sw = "s3" /\ hops[2].eg = 200 /\ hops[2].tunnel = 0
       /\ hops[2].port = S3_H3_PORT /\ hops[2].mac = H3_MAC

C7_Witness ==
  /\ Provisioned
  /\ counters["s1"]["ing"][TID_S1_S3] = 1
  /\ counters["s3"]["eg"][TID_S1_S3] = 1

\* the tunnel rules the design asks for on each device: for every directed
\* path, ingress and transit on its source and egress on its destination
ExpectedTunnelRules ==
  [ sw \in Switches |->
      { TunnelIngress(p) : p \in { q \in TunnelPaths : q.src = sw } }
        \cup { TunnelTransit(p) : p \in { q \in TunnelPaths : q.src = sw } }
        \cup { TunnelEgress(p) : p \in { q \in TunnelPaths : q.dst = sw } } ]

\* C8: once provisioning has completed, for every directed path S->T the
\* devices hold the Tunnel Ingress rule on S (address of T's host -> id), the
\* Tunnel Transit rule on S (id -> S's port toward T) and the Tunnel Egress
\* rule on T (id -> the host's link-layer address on T's host port).
C8_TunnelRulesInstalled ==
  Provisioned =>
    /\ \A sw \in Switches : ExpectedTunnelRules[sw] \subseteq tables[sw]
    /\ \E e \in tables["s1"] :
         /\ e.table = "MyIngress.ipv4_lpm" /\ e.match = [ip |-> "10.0.2.2", plen |-> 32]
         /\ e.action = "MyIngress.myTunnel_ingress" /\ e.params = [dst_id |-> 100]
    /\ \E e \in tables["s1"] :
         /\ e.table = "MyIngress.myTunnel_exact" /\ e.match = [dst_id |-> 100]
         /\ e.action = "MyIngress.myTunnel_forward"
         /\ e.params = [port |-> PortToward("s1", "s2")]
    /\ \E e \in tables["s2"] :
         /\ e.table = "MyIngress.myTunnel_exact" /\ e.match = [dst_id |-> 100]
         /\ e.action = "MyIngress.myTunnel_egress"
         /\ e.params = [dstAddr |-> HostAt("s2").mac, port |-> HostAt("s2").port]

C8_Witness == Provisioned /\ \A sw \in Switches : Cardinality(tables[sw]) = 7

\* the positions in writes of the entries with a given action
WritesOf(action) == { i \in 1..Len(writes) : writes[i].action = action }

\* the unordered links, each as the set of its two tunnel identifiers
LinkTidSets ==
  { {pq[1].tid, pq[2].tid} : pq \in { r \in TunnelPaths \X TunnelPaths :
                                        r[1].src = r[2].dst /\ r[1].dst = r[2].src } }

\* C9: the rules written by a completed provisioning are exactly one Local
\* Delivery rule per host, on the host's device, and for every unordered link
\* two Tunnel Ingress, two Tunnel Transit and two Tunnel Egress rules, and the
\* identifiers of the six directed paths are pairwise distinct.
C9_RuleCounts ==
  Provisioned =>
    LET local == WritesOf("MyIngress.ipv4_forward")
        ingress == WritesOf("MyIngress.myTunnel_ingress")
        transit == WritesOf("MyIngress.myTunnel_forward")
        egress == WritesOf("MyIngress.myTunnel_egress")
    IN /\ Cardinality(local) = Cardinality(Hosts)
       /\ \A h \in Hosts :
            Cardinality({ i \in local : writes[i].sw = h.sw /\ writes[i].match.ip = h.ip }) = 1
       /\ \A l \in LinkTidSets :
            /\ Cardinality({ i \in ingress : writes[i].params.dst_id \in l }) = 2
            /\ Cardinality({ i \in transit : writes[i].match.dst_id \in l }) = 2
            /\ Cardinality({ i \in egress : writes[i].match.dst_id \in l }) = 2
       /\ Len(writes) = Cardinality(Hosts) + 6 * Cardinality(LinkTidSets)
       /\ Cardinality({ writes[i].params.dst_id : i \in ingress }) = Cardinality(TunnelPaths)
       /\ Cardinality(LinkTidSets) = 3
       /\ \A l \in LinkTidSets : Cardinality(l) = 2

C9_Witness == Provisioned /\ Cardinality(WritesOf("MyIngress.myTunnel_forward")) = 6

\* C10: a provisioning phase that completed without a failure has pushed the
\* image to every device exactly once and written every forwarding rule of
\* the design exactly once, and nothing else.
C10_ExactlyOnce ==
  Provisioned =>
    /\ \A sw \in Switches : pushes[sw] = 1
    /\ { writes[i] : i \in 1..Len(writes) } = ExpectedRules
    /\ Len(writes) = Cardinality(ExpectedRules)

C10_Witness == Provisioned /\ pc = "sleep" /\ cycle = 0 /\ sent = 0

\* the timestamps the calls of cycle k take
CycleStamps(k) == ((k - 1) * Len(Calls) + 1)..(k * Len(Calls))

\* the positions in file f of the lines of cycle k with a tunnel id and a verb
LinesOf(f, k, t, verb) ==
  { i \in 1..Len(logs[f]) :
      /\ logs[f][i].tid = t /\ logs[f][i].verb = verb
      /\ logs[f][i].ts \in CycleStamps(k) }

C12_InterruptStopsAndReleases ==
  /\ [][ (caught = "none" /\ caught' = "KeyboardInterrupt") =>
           /\ pc \in TryPcs /\ pc' = "shutdown"
           /\ Len(reads') <= Len(reads)
           /\ UNCHANGED << conns, pipeline, tables, pushes, writes, logs, truncs >> ]_vars
  /\ [][ caught = "KeyboardInterrupt" =>
           /\ pc = "shutdown" /\ pc' = "done" /\ released' /\ exitStatus' = 0
           /\ UNCHANGED << conns, pipeline, tables, pushes, writes, reads, logs, truncs >> ]_vars
  /\ []( caught = "KeyboardInterrupt" =>
           \/ pc = "shutdown" /\ ~released
           \/ pc = "done" /\ released /\ exitStatus = 0 )

C12_Witness ==
  /\ caught = "KeyboardInterrupt" /\ pc = "done" /\ released /\ conns = Switches
  /\ Len(logs[s1s2_log]) = 1 /\ logs[s1s2_log][1].verb = "sent"

\* C13: a grpc.RpcError stops the controller wherever it is raised: raised
\* by a provisioning call or by the ReadCounters call of a counter read in
\* the polling loop, it takes main to its second handler and its last
\* statement, and main ends with the handles released.
C13_RpcErrorShutsDown ==
  /\ [][ (ReadEnded /\ lastRead' = "rpc") =>
           pc' = "shutdown" /\ caught' = "RpcError" ]_vars
  /\ [][ (pc = "prov" /\ caught' = "RpcError") => pc' = "shutdown" ]_vars
  /\ []( (caught = "RpcError" /\ pc = "done") => released )

\* C14: an RpcError raised by a pipeline push or a rule write on one device
\* leaves the entries the devices already hold in place, and the pushes and
\* rule writes of the other devices are carried out all the same: when main
\* has ended after such a failure, every other device has its image and all
\* of its rules.
C14_FailureConfinedToDevice ==
  /\ [][ (pc = "prov" /\ caught' = "RpcError") => tables' = tables ]_vars
  /\ []( (pc = "done" /\ caught = "RpcError" /\ ~Provisioned
             /\ Prog[ip].op \in {"push", "write"}) =>
           \A sw \in Switches \ {Prog[ip].sw} :
             pushes[sw] >= 1 /\ Installed[sw] \subseteq tables[sw] )

\* a polling cycle is under way
CycleUnderWay == pc \in {"read_ing", "log_ing", "read_eg", "log_eg"}

\* C15: no counter read waits for ever: a polling cycle that is under way
\* reaches the head of the loop again, unless the operator interrupts it (or
\* a log append fails, which ends main).
C15_EveryCycleCompletes ==
  CycleUnderWay ~> (pc = "sleep" \/ caught = "KeyboardInterrupt" \/ pc = "crashed")

\* a path given on the command line does not exist
MissingInput == ~args.p4info \/ ~args.bmv2_json

\* C16: with the p4info path or the BMv2 JSON path missing, the entry point
\* ends the process with status 1 and main is never entered: the only step
\* is the exit, no log file is truncated or changed, no device session is
\* opened and no device call (push, rule write, counter read) is made.
C16_MissingInputExits ==
  /\ []( MissingInput =>
           /\ pc \in {"entry", "exited"}
           /\ pc = "exited" <=> exitStatus = 1
           /\ \A f \in Files : truncs[f] = 0
           /\ conns = {} /\ pipeline = {} /\ writes = <<>> /\ reads = <<>>
           /\ \A sw \in Switches : pushes[sw] = 0 )
  /\ [][ MissingInput =>
           /\ pc = "entry" /\ pc' = "exited"
           /\ UNCHANGED << logs, tables, counters >> ]_vars

C16_Witness ==
  /\ pc = "exited" /\ exitStatus = 1 /\ args.p4info /\ ~args.bmv2_json
  /\ \A f \in Files : logs[f] # <<>>

\* the entries main asks for, in the order of its calls
RequestedRules == [i \in 1..Len(RuleSteps) |-> RuleSteps[i].entry]

C18_PollOnlyAfterProvisioning ==
  /\ (pc \in PollPcs \/ reads # <<>> \/ cycle > 0) =>
       /\ Provisioned
       /\ pipeline = Switches
       /\ \A sw \in Switches : pushes[sw] = 1
       /\ Len(writes) = Len(RuleSteps)
  /\ ~Provisioned =>
       /\ pc \notin PollPcs /\ reads = <<>> /\ cycle = 0
       /\ \A f \in Files : \A i \in 1..Len(logs[f]) : logs[f][i].ts = 0

C18_Witness ==
  /\ pc = "done" /\ caught = "RpcError" /\ Len(writes) = 5
  /\ \A f \in Files : truncs[f] = 1 /\ logs[f] = <<>>

\* the entries main asks device sw to install, in the order of its calls
RulesOn(sw) ==
  LET OnSw(e) == e.sw = sw IN SelectSeq(RequestedRules, OnSw)

\* two entries address the same key of the same table
SameKey(e, x) == e.table = x.table /\ e.match = x.match

RECURSIVE InsertAll(_, _)
\* a table after a sequence of INSERT updates, a duplicate key being rejected
InsertAll(tbl, seq) ==
  IF seq = <<>> THEN tbl
  ELSE LET e == Head(seq) IN
       InsertAll(IF \E x \in tbl : SameKey(e, x) THEN tbl ELSE tbl \cup {e}, Tail(seq))

RECURSIVE ModifyAll(_, _)
\* a table after a sequence of updates, a duplicate key being overwritten
ModifyAll(tbl, seq) ==
  IF seq = <<>> THEN tbl
  ELSE LET e == Head(seq) IN
       ModifyAll({ x \in tbl : ~SameKey(e, x) } \cup {e}, Tail(seq))

\* the rules main asks for have pairwise distinct keys on each device
KeysDistinct ==
  \A i \in 1..Len(RequestedRules) : \A j \in 1..Len(RequestedRules) :
    (i # j /\ RequestedRules[i].sw = RequestedRules[j].sw) =>
      ~SameKey(RequestedRules[i], RequestedRules[j])

\* on each device the Local Delivery and Tunnel Ingress rules match different
\* addresses and the Tunnel Transit and Tunnel Egress rules different identifiers
KindsDisjoint ==
  \A sw \in Switches :
    LET on == { RulesOn(sw)[i] : i \in 1..Len(RulesOn(sw)) }
        ips(a) == { e.match.ip : e \in { x \in on : x.action = a } }
        ids(a) == { e.match.dst_id : e \in { x \in on : x.action = a } }
    IN /\ ips("MyIngress.ipv4_forward") \cap ips("MyIngress.myTunnel_ingress") = {}
       /\ ids("MyIngress.myTunnel_forward") \cap ids("MyIngress.myTunnel_egress") = {}
       /\ Cardinality(ips("MyIngress.ipv4_forward")) = 1
       /\ Cardinality(ips("MyIngress.myTunnel_ingress")) = 2
       /\ Cardinality(ids("MyIngress.myTunnel_forward")) = 2
       /\ Cardinality(ids("MyIngress.myTunnel_egress")) = 2

\* whatever the order of the writes of a device, and whether the device
\* rejects or overwrites a duplicate key, the device ends with the same table
OrderIndependent ==
  \A sw \in Switches :
    LET seq == RulesOn(sw) IN
    \A f \in Permutations(1..Len(seq)) :
      LET shuffled == [i \in 1..Len(seq) |-> seq[f[i]]] IN
      /\ InsertAll({}, shuffled) = Installed[sw]
      /\ ModifyAll({}, shuffled) = Installed[sw]

\* C19: on each device the rules written to one table have pairwise
\* distinct match keys (different host addresses in the address table,
\* different tunnel identifiers in the tunnel table), so no write of a run
\* collides with or replaces another: once the images are pushed the devices
\* hold, at every moment, exactly the entries written so far, as many
\* entries as there were writes, and any order of a device's writes gives the
\* same table.
C19_DistinctMatchKeys ==
  /\ KeysDistinct
  /\ KindsDisjoint
  /\ OrderIndependent
  /\ (~keeps /\ ip > Len(ConnectSteps) + Len(PushSteps)) =>
       /\ UNION { tables[sw] : sw \in Switches } = { writes[i] : i \in 1..Len(writes) }
       /\ \A sw \in Switches : \A e \in tables[sw] : e.sw = sw
       /\ Cardinality(tables["s1"]) + Cardinality(tables["s2"]) + Cardinality(tables["s3"])
            = Len(writes)

C19_Witness ==
  /\ Provisioned /\ ~keeps
  /\ Cardinality({ e \in tables["s1"] : e.table = "MyIngress.myTunnel_exact" }) = 4
  /\ Cardinality({ e \in tables["s1"] : e.table = "MyIngress.ipv4_lpm" }) = 3

\* line i of file f is the line of call j of cycle k with this verb and device
IsLine(f, i, k, j, verb, sw) ==
  /\ logs[f][i].verb = verb /\ logs[f][i].sw = sw
  /\ logs[f][i].tid = Calls[j].tid
  /\ logs[f][i].ts = (k - 1) * Len(Calls) + j

\* C20: at the head of the loop, after k completed cycles, every link log
\* holds exactly 4k lines, and the four lines of each cycle are, for the
\* link {S,T} of the log: the sent line of S->T (device S), the received line
\* of S->T (device T), the sent line of T->S (device T) and the received
\* line of T->S (device S); and at every moment a received line directly
\* follows the sent line of the same observation.
C20_FourLinesPerCycleInOrder ==
  /\ (pc = "sleep" /\ Provisioned) =>
       \A f \in Files :
         LET js == { j \in 1..Len(Calls) : Calls[j].log = f }
             j1 == CHOOSE j \in js : \A x \in js : j <= x
             j2 == CHOOSE j \in js : \A x \in js : j >= x
             S == Calls[j1].src
             T == Calls[j1].dst
         IN
         /\ Cardinality(js) = 2
         /\ f = LinkLog(S, T) /\ Calls[j2].src = T /\ Calls[j2].dst = S
         /\ Len(logs[f]) = 4 * cycle
         /\ \A k \in 1..cycle :
              /\ IsLine(f, 4 * (k - 1) + 1, k, j1, "sent", S)
              /\ IsLine(f, 4 * (k - 1) + 2, k, j1, "received", T)
              /\ IsLine(f, 4 * (k - 1) + 3, k, j2, "sent", T)
              /\ IsLine(f, 4 * (k - 1) + 4, k, j2, "received", S)
  /\ \A f \in Files : \A i \in 1..Len(logs[f]) :
       logs[f][i].verb = "received" =>
         /\ i > 1
         /\ logs[f][i - 1].verb = "sent"
         /\ logs[f][i - 1].ts = logs[f][i].ts /\ logs[f][i - 1].tid = logs[f][i].tid

C20_Witness ==
  /\ pc = "sleep" /\ cycle >= 1 /\ ~faulted
  /\ Len(logs[s2s3_log]) = 4 * cycle /\ logs[s2s3_log][4 * cycle].verb = "received"

====
